---- MODULE Spec2Model ----
(***************************************************************************)
(* Model of the Xe kernel-mode-driver backend of the iris driver           *)
(* (src/gallium/drivers/iris/xe/iris_kmd_backend.c).                       *)
(*                                                                         *)
(* Three specifications share the variables below:                         *)
(*   SpecBind    xe_gem_vm_bind / xe_gem_vm_unbind (xe_gem_vm_bind_op),    *)
(*               one kernel call per step;                                 *)
(*   SpecCreate  xe_gem_create;                                            *)
(*   SpecSubmit  xe_batch_submit, one step per statement group, called by  *)
(*               several threads on the same device.                       *)
(* The kernel is the environment: every ioctl result is an input.          *)
(***************************************************************************)
EXTENDS Integers, Sequences, FiniteSets

VARIABLES
    \* device (iris_bufmgr / intel_device_info), fixed after Init
    mem_alignment,   \* devinfo->mem_alignment
    global_vm_id,    \* iris_bufmgr_get_global_vm_id(bufmgr)
    no_hw,           \* devinfo->no_hw
    \* xe_gem_vm_bind_op
    bo,              \* the struct iris_bo the call is about
    op_req,          \* the op argument of the call
    bpc,             \* position of the call
    ret,             \* local  int ret
    create,          \* local  struct drm_syncobj_create (its handle)
    args,            \* local  struct drm_xe_vm_bind as handed to the kernel
    ioctls,          \* the kernel calls issued by the call, in order
    result,          \* what xe_gem_vm_bind / xe_gem_vm_unbind returned
    \* xe_gem_create
    gpc,             \* position of the call
    gc_in,           \* the arguments: regions, size, alloc_flags
    gem_create,      \* local  struct drm_xe_gem_create as handed to the kernel
    gc_ioctls,       \* the kernel calls issued by the call, in order
    gc_ret,          \* the uint32_t the call returned
    \* xe_batch_submit, shared state
    debug_batch,     \* INTEL_DEBUG(DEBUG_BATCH)
    bo_deps_lock,    \* owner of the simple_mtx_t, or "none"
    backing,         \* iris_get_backing_bo(), per object
    idle,            \* bo->idle, per object
    index,           \* bo->index, per object
    refcount,        \* bo->refcount, per object
    \* xe_batch_submit, per calling thread
    spc,             \* position of the call
    batch,           \* the struct iris_batch: exec_bos, exec_fences
    bmapped,         \* whether batch->bo is CPU-mapped
    syncs,           \* local  struct drm_xe_sync *syncs (NULL or the array)
    sret,            \* local  int ret
    exec,            \* local  struct drm_xe_exec as handed to the kernel
    slog,            \* the steps the call has taken, each with whether the lock was held
    sresult,         \* the int the call returned
    bound,           \* the mapping the kernel holds from the last successful bind
    \* xe_batch_check_for_reset
    rpc,             \* position of the call
    engine_get_property, \* local  struct drm_xe_engine_get_property after the ioctl
    reset_ioctls,    \* the kernel calls issued by the call, in order
    reset_status,    \* the enum pipe_reset_status the call returned
    \* xe_gem_mmap
    mpc,             \* position of the call
    mmap_bo,         \* the struct iris_bo the call is about: gem_handle, size
    mmap_offset,     \* local  struct drm_xe_gem_mmap_offset (its offset)
    mmap_calls,      \* the kernel calls issued by the call, in order
    mmap_ret         \* the pointer the call returned (0 is NULL)

dev_vars  == <<mem_alignment, global_vm_id, no_hw>>
bind_vars == <<bo, op_req, bpc, ret, create, args, ioctls, result, bound>>
gc_vars   == <<gpc, gc_in, gem_create, gc_ioctls, gc_ret>>
sub_shared == <<debug_batch, bo_deps_lock, backing, idle, index, refcount>>
sub_local  == <<spc, batch, bmapped, syncs, sret, exec, slog, sresult>>
sub_vars   == <<sub_shared, sub_local>>
reset_vars == <<rpc, engine_get_property, reset_ioctls, reset_status>>
mmap_vars  == <<mpc, mmap_bo, mmap_offset, mmap_calls, mmap_ret>>
q_vars     == <<reset_vars, mmap_vars>>
vars == <<dev_vars, bind_vars, gc_vars, sub_vars, q_vars>>

----------------------------------------------------------------------------
(* Bounds *)

MaxAlignLog == 2     \* mem_alignment ranges over 2^0 .. 2^MaxAlignLog
MaxSize     == 5     \* bo->size ranges over 1 .. MaxSize
MaxHandle   == 2     \* kernel GEM handles range over 1 .. MaxHandle
MaxSyncobj  == 2     \* kernel syncobj handles range over 1 .. MaxSyncobj
MaxPtr      == 2     \* CPU pointers range over 1 .. MaxPtr (0 is NULL)
MaxErr      == 2     \* a failing ioctl reports one of -1 .. -MaxErr
MaxVm       == 2     \* VM ids range over 1 .. MaxVm
VaBits      == 2     \* width standing for the 48 bits of a GPU address
U32Bits     == 16    \* width standing for the 32 bits of a uint32_t
MaxRegions  == 2     \* regions_count ranges over 1 .. MaxRegions
MaxInstance == 1     \* regions[i]->instance ranges over 0 .. MaxInstance
NObjects    == 2     \* the batches refer to objects 1 .. NObjects
MaxExec     == 2     \* batch->exec_count ranges over 1 .. MaxExec
MaxFences   == 2     \* a fence list holds 0 .. MaxFences fences
MaxEngine   == 2     \* engine ids range over 1 .. MaxEngine
MaxValue    == 2     \* the ban property value ranges over 0 .. MaxValue
MaxOffset   == 2     \* mmap offset tokens range over 1 .. MaxOffset

(* Program constants *)

EINVAL == 22
ENOMEM == 12
MAP_FAILED == -1
XE_GEM_CREATE_FLAG_SCANOUT_BIT == 25   \* XE_GEM_CREATE_FLAG_SCANOUT is 1 << 25

----------------------------------------------------------------------------
(* Environment *)

RECURSIVE Pow2(_)
Pow2(n) == IF n = 0 THEN 1 ELSE 2 * Pow2(n - 1)

\* intel_ioctl: zero on success, a negative error code on failure
IoctlResults == (-MaxErr) .. 0

Alignments  == { Pow2(k) : k \in 0 .. MaxAlignLog }
GemHandles  == 1 .. MaxHandle
SyncHandles == 1 .. MaxSyncobj
Pointers    == 1 .. MaxPtr
\* bo->address is a canonical 64-bit address: bits above the low 48 may be set
Addresses   == 0 .. (Pow2(VaBits + 1) - 1)

\* align64(value, alignment), alignment a power of two
align64(value, alignment) == ((value + alignment - 1) \div alignment) * alignment

\* intel_48b_address(): keep the low 48 bits
intel_48b_address(a) == a % Pow2(VaBits)

\* struct iris_bo, the fields xe_gem_vm_bind_op reads.  A user-pointer object
\* has real.map set to the user's pointer and is never imported; a
\* kernel-owned object may or may not be CPU-mapped.
BindObjects ==
    { b \in [gem_handle : GemHandles, size : 1 .. MaxSize, address : {1, Pow2(VaBits) + 1},
             userptr : BOOLEAN, map : 0 .. MaxPtr, imported : BOOLEAN] :
        /\ b.userptr => (b.map # 0 /\ ~b.imported) }

iris_bo_is_imported(b) == b.imported

NoArgs == [vm_id |-> 0, num_binds |-> 0, obj |-> 0, obj_offset |-> 0, range |-> 0,
           addr |-> 0, op |-> "none", num_syncs |-> 0,
           sync |-> [flags |-> {}, handle |-> 0]]

NoBo == [gem_handle |-> 0, size |-> 0, address |-> 0, userptr |-> FALSE,
         map |-> 0, imported |-> FALSE]

Ioctl(name, handle, r) == [ioctl |-> name, handle |-> handle, ret |-> r]

----------------------------------------------------------------------------
(* xe_gem_vm_bind_op *)

BindHandle_KeepOnUnmap(b, op) == IF b.userptr THEN 0 ELSE b.gem_handle

\* uint32_t handle = op == XE_VM_BIND_OP_UNMAP ? 0 : bo->gem_handle;
\* if (bo->real.userptr) handle = 0;
BindHandle(b, op) ==
    IF b.userptr THEN 0
    ELSE IF op = "XE_VM_BIND_OP_UNMAP" THEN 0 ELSE b.gem_handle

BindObjOffset_Zero(b) == 0

\* uint64_t obj_offset = 0; if (bo->real.userptr) obj_offset = (uintptr_t)bo->real.map;
BindObjOffset(b) == IF b.userptr THEN b.map ELSE 0

BindOp_NoUserptr(b, op) == op

\* if (bo->real.userptr && op == XE_VM_BIND_OP_MAP) op = XE_VM_BIND_OP_MAP_USERPTR;
BindOp(b, op) ==
    IF b.userptr /\ op = "XE_VM_BIND_OP_MAP" THEN "XE_VM_BIND_OP_MAP_USERPTR" ELSE op

BindRange_AlwaysAligned(b, alignment) == align64(b.size, alignment)

\* range: raw size for imported objects, aligned size otherwise
BindRange(b, alignment) ==
    IF iris_bo_is_imported(b) THEN b.size ELSE align64(b.size, alignment)

\* struct drm_xe_sync sync
BindSync(h) == [flags |-> {"DRM_XE_SYNC_SYNCOBJ", "DRM_XE_SYNC_SIGNAL"}, handle |-> h]

\* struct drm_xe_vm_bind args
BindArgs(b, op, h) ==
    [vm_id      |-> global_vm_id,
     num_binds  |-> 1,
     obj        |-> BindHandle(b, op),
     obj_offset |-> BindObjOffset(b),
     range      |-> BindRange(b, mem_alignment),
     addr       |-> intel_48b_address(b.address),
     op         |-> BindOp(b, op),
     num_syncs  |-> 1,
     sync       |-> BindSync(h)]

AfterCreate_Continue(r) == "bind"

\* if (ret) return ret;  after DRM_IOCTL_SYNCOBJ_CREATE
AfterCreate(r) == IF r # 0 THEN "returned" ELSE "bind"

AfterBind_AlwaysWait(r) == "wait"

\* if (ret) goto bind_error;  after DRM_IOCTL_XE_VM_BIND
AfterBind(r) == IF r # 0 THEN "destroy" ELSE "wait"

AfterWait_ReturnOnFailure(r) == IF r # 0 THEN "returned" ELSE "destroy"

\* a failed wait is logged and control falls through to bind_error
AfterWait(r) == "destroy"

RetAfterDestroy_Propagate(prev, destroy_ret) ==
    IF destroy_ret # 0 THEN destroy_ret ELSE prev

\* what ret holds after the DRM_IOCTL_SYNCOBJ_DESTROY at bind_error: the
\* result of the destroy is only logged
RetAfterDestroy(prev, destroy_ret) == prev

\* xe_gem_vm_bind / xe_gem_vm_unbind: xe_gem_vm_bind_op(bo, op) == 0
BindSucceeded(r) == r = 0

\* no mapping: nothing is bound
NoBinding == [live |-> FALSE, bo |-> NoBo, addr |-> 0, range |-> 0]

\* the mapping the kernel holds once DRM_IOCTL_XE_VM_BIND returned r for a
\* request a of operation op on object b: a successful map creates it
BoundAfterBind(old, b, op, a, r) ==
    IF r = 0 /\ op = "XE_VM_BIND_OP_MAP"
    THEN [live |-> TRUE, bo |-> b, addr |-> a.addr, range |-> a.range]
    ELSE old

\* the mapping once an unbind whose DRM_IOCTL_XE_VM_BIND succeeded has returned
BoundAfterReturn(old, op, unbound) ==
    IF op = "XE_VM_BIND_OP_UNMAP" /\ unbound THEN NoBinding ELSE old

\* the buffer manager calls gem_vm_bind or gem_vm_unbind on an object; an
\* object it has bound is unbound, unchanged, before anything else is bound
CallBindOp ==
    /\ bpc = "idle"
    /\ IF bound.live
       THEN /\ bo' = bound.bo
            /\ op_req' = "XE_VM_BIND_OP_UNMAP"
       ELSE \E b \in BindObjects, op \in {"XE_VM_BIND_OP_MAP", "XE_VM_BIND_OP_UNMAP"} :
              /\ bo' = b
              /\ op_req' = op
    /\ bpc' = "create"
    /\ ret' = 0
    /\ create' = 0
    /\ args' = NoArgs
    /\ ioctls' = << >>
    /\ result' = "none"
    /\ UNCHANGED <<dev_vars, q_vars, gc_vars, sub_vars, bound>>

\* DRM_IOCTL_SYNCOBJ_CREATE; on failure return ret
SyncobjCreate ==
    /\ bpc = "create"
    /\ \E r \in IoctlResults, h \in SyncHandles :
          /\ ret' = r
          /\ create' = IF r # 0 THEN 0 ELSE h
          /\ ioctls' = Append(ioctls, Ioctl("DRM_IOCTL_SYNCOBJ_CREATE", create', r))
          /\ bpc' = AfterCreate(r)
          /\ result' = IF bpc' = "returned" THEN BindSucceeded(r) ELSE result
    /\ UNCHANGED <<dev_vars, q_vars, gc_vars, sub_vars, bo, op_req, args, bound>>

\* DRM_IOCTL_XE_VM_BIND; on failure goto bind_error
VmBind ==
    /\ bpc = "bind"
    /\ args' = BindArgs(bo, op_req, create)
    /\ \E r \in IoctlResults :
          /\ ret' = r
          /\ ioctls' = Append(ioctls, Ioctl("DRM_IOCTL_XE_VM_BIND", args'.sync.handle, r))
          /\ bpc' = AfterBind(r)
          /\ result' = IF bpc' = "returned" THEN BindSucceeded(r) ELSE result
          /\ bound' = BoundAfterBind(bound, bo, op_req, args', r)
    /\ UNCHANGED <<dev_vars, q_vars, gc_vars, sub_vars, bo, op_req, create>>

\* DRM_IOCTL_SYNCOBJ_WAIT on &create.handle
SyncobjWait ==
    /\ bpc = "wait"
    /\ \E r \in IoctlResults :
          /\ ret' = r
          /\ ioctls' = Append(ioctls, Ioctl("DRM_IOCTL_SYNCOBJ_WAIT", create, r))
          /\ bpc' = AfterWait(r)
          /\ result' = IF bpc' = "returned" THEN BindSucceeded(r) ELSE result
    /\ UNCHANGED <<dev_vars, q_vars, gc_vars, sub_vars, bo, op_req, create, args, bound>>

\* bind_error: DRM_IOCTL_SYNCOBJ_DESTROY, then return ret
SyncobjDestroy ==
    /\ bpc = "destroy"
    /\ \E r \in IoctlResults :
          /\ ret' = RetAfterDestroy(ret, r)
          /\ ioctls' = Append(ioctls, Ioctl("DRM_IOCTL_SYNCOBJ_DESTROY", create, r))
    /\ bpc' = "returned"
    /\ result' = BindSucceeded(ret')
    /\ UNCHANGED <<dev_vars, q_vars, gc_vars, sub_vars, bo, op_req, create, args, bound>>

\* the caller has the result; the next call starts from scratch
BindReturn ==
    /\ bpc = "returned"
    /\ bound' = BoundAfterReturn(bound, op_req,
                   \E i \in DOMAIN ioctls :
                      ioctls[i].ioctl = "DRM_IOCTL_XE_VM_BIND" /\ ioctls[i].ret = 0)
    /\ bo' = NoBo
    /\ op_req' = "none"
    /\ bpc' = "idle"
    /\ ret' = 0
    /\ create' = 0
    /\ args' = NoArgs
    /\ ioctls' = << >>
    /\ result' = "none"
    /\ UNCHANGED <<dev_vars, q_vars, gc_vars, sub_vars>>

----------------------------------------------------------------------------
(* xe_gem_create *)

\* conversion of an int to the uint32_t the function returns
ToU32(x) == x % Pow2(U32Bits)

AllocFlags == SUBSET {"BO_ALLOC_PROTECTED", "BO_ALLOC_SHARED", "BO_ALLOC_SCANOUT"}

RegionLists == UNION { [1 .. n -> 0 .. MaxInstance] : n \in 1 .. MaxRegions }

GemCreateInputs == [regions : RegionLists, size : 1 .. MaxSize, alloc_flags : AllocFlags]

NoGemCreateInput == [regions |-> << >>, size |-> 0, alloc_flags |-> {}]

\* a flags word is the set of the numbers of its set bits; | is union
NoGemCreate == [vm_id |-> 0, size |-> 0, flags |-> {}, handle |-> 0]

\* if (alloc_flags & BO_ALLOC_PROTECTED) return -EINVAL;
GemCreateProtectedReturn == ToU32(-EINVAL)

GemCreateVmId_Private(alloc_flags) == global_vm_id

\* vm_id = alloc_flags & BO_ALLOC_SHARED ? 0 : vm_id;
GemCreateVmId(alloc_flags) ==
    IF "BO_ALLOC_SHARED" \in alloc_flags THEN 0 ELSE global_vm_id

\* .flags = scanout flag or 0, then |= BITFIELD_BIT(regions[i]->instance) for each i
GemCreateFlags(regions, alloc_flags) ==
    (IF "BO_ALLOC_SCANOUT" \in alloc_flags THEN {XE_GEM_CREATE_FLAG_SCANOUT_BIT} ELSE {})
        \cup { regions[i] : i \in DOMAIN regions }

\* struct drm_xe_gem_create gem_create, before the kernel fills in the handle
GemCreateArgs(in) ==
    [vm_id  |-> GemCreateVmId(in.alloc_flags),
     size   |-> align64(in.size, mem_alignment),
     flags  |-> GemCreateFlags(in.regions, in.alloc_flags),
     handle |-> 0]

GemCreateResult_Errno(r, handle) == IF r # 0 THEN r ELSE handle

\* if (intel_ioctl(...)) return 0; return gem_create.handle;
GemCreateResult(r, handle) == IF r # 0 THEN 0 ELSE handle

\* xe_gem_create(bufmgr, regions, regions_count, size, heap_flags, alloc_flags)
XeGemCreate ==
    /\ gpc = "idle"
    /\ \E in \in GemCreateInputs, r \in IoctlResults, h \in GemHandles :
          /\ gc_in' = in
          /\ IF "BO_ALLOC_PROTECTED" \in in.alloc_flags
             THEN /\ gem_create' = NoGemCreate
                  /\ gc_ioctls' = << >>
                  /\ gc_ret' = GemCreateProtectedReturn
             ELSE /\ gem_create' = [GemCreateArgs(in) EXCEPT !.handle = IF r = 0 THEN h ELSE 0]
                  /\ gc_ioctls' = << Ioctl("DRM_IOCTL_XE_GEM_CREATE", gem_create'.handle, r) >>
                  /\ gc_ret' = ToU32(GemCreateResult(r, gem_create'.handle))
    /\ gpc' = "returned"
    /\ UNCHANGED <<dev_vars, q_vars, bind_vars, sub_vars>>

\* the caller has the handle; the next call starts from scratch
GemCreateReturn ==
    /\ gpc = "returned"
    /\ gpc' = "idle"
    /\ gc_in' = NoGemCreateInput
    /\ gem_create' = NoGemCreate
    /\ gc_ioctls' = << >>
    /\ gc_ret' = 0
    /\ UNCHANGED <<dev_vars, q_vars, bind_vars, sub_vars>>

----------------------------------------------------------------------------
(* xe_batch_submit *)

Threads == {"t1", "t2"}
Objects == 1 .. NObjects

Range(f) == { f[i] : i \in DOMAIN f }
Injective(f) == \A i, j \in DOMAIN f : f[i] = f[j] => i = j

\* batch->exec_bos[0 .. exec_count-1]: each object is listed once, the
\* batch's own command buffer (batch->bo) first.  The loop over exec_bos
\* treats every position alike, so the lists are taken in increasing order
ExecLists ==
    { l \in UNION { [1 .. n -> Objects] : n \in 1 .. MaxExec } :
        Injective(l) /\ \A i, j \in DOMAIN l : i < j => l[i] < l[j] }

\* struct iris_batch_fence
Fences == [handle : SyncHandles,
           flags  : {{"IRIS_BATCH_FENCE_WAIT"}, {"IRIS_BATCH_FENCE_SIGNAL"}}]

\* batch->exec_fences as iris_batch_update_syncobjs leaves it: one fence per
\* synchronization object.  The code copies handles and never compares them,
\* so the lists are taken up to a renaming of the handles: in increasing order
FenceLists ==
    { l \in UNION { [1 .. n -> Fences] : n \in 0 .. MaxFences } :
        \A i, j \in DOMAIN l : i < j => l[i].handle < l[j].handle }

Batches == [exec_bos : ExecLists, exec_fences : FenceLists]

\* "t1" submits any batch; the other threads contend for the lock with the
\* batch of object 1 alone and no fence
BatchesOf(t) ==
    IF t = "t1" THEN Batches
    ELSE { [exec_bos |-> << 1 >>, exec_fences |-> << >>] }

NoBatch == [exec_bos |-> << >>, exec_fences |-> << >>]

\* struct drm_xe_sync *syncs = NULL: the pointer to no array (an allocated
\* array has at least one element)
NULL == << >>

NoExec == [num_batch_buffer |-> 0, address_of |-> 0, syncs |-> NULL, num_syncs |-> 0]

\* batch->bo
BatchBo(b) == b.exec_bos[1]

Step(name, held, r) == [step |-> name, held |-> held, ret |-> r]

TranslateFences_AllSignal(fences) ==
    [i \in 1 .. Len(fences) |->
        [handle |-> fences[i].handle,
         flags  |-> {"DRM_XE_SYNC_SYNCOBJ", "DRM_XE_SYNC_SIGNAL"}]]

\* the body of util_dynarray_foreach(&batch->exec_fences, ...): syncs[i] for
\* every fence, in the order of the list
TranslateFences(fences) ==
    [i \in 1 .. Len(fences) |->
        [handle |-> fences[i].handle,
         flags  |-> {"DRM_XE_SYNC_SYNCOBJ"} \cup
                    (IF "IRIS_BATCH_FENCE_SIGNAL" \in fences[i].flags
                     THEN {"DRM_XE_SYNC_SIGNAL"} ELSE {})]]

\* if (!syncs) { ret = -ENOMEM; goto error_no_sync_mem; }
AfterCallocFailure == "error_no_sync_mem"

\* struct drm_xe_exec exec
ExecArgs(b, sy) ==
    [num_batch_buffer |-> 1,
     address_of       |-> b.exec_bos[1],
     syncs            |-> sy,
     num_syncs        |-> Len(b.exec_fences)]

SubmitIssuesExec_Always(nohw) == TRUE

\* if (!batch->screen->devinfo->no_hw) ret = intel_ioctl(... DRM_IOCTL_XE_EXEC ...)
SubmitIssuesExec(nohw) == ~nohw

SubmitEntry_SkipUnmap == "lock"

\* the first statement of xe_batch_submit with an effect is the unmap
SubmitEntry == "unmap"

\* iris_bo_unmap(batch->bo): the command buffer has no CPU mapping afterwards
MappedAfterUnmap(mapped) == FALSE

CanLock_Always(owner) == TRUE

\* simple_mtx_lock(bo_deps_lock) returns only once no thread owns the mutex
CanLock(owner) == owner = "none"

LockAfterUnlock_Kept(owner) == owner

\* simple_mtx_unlock(bo_deps_lock) on the main path
LockAfterUnlock(owner) == "none"

LockAfterErrorUnlock_Kept(owner) == owner

\* error_no_sync_mem: simple_mtx_unlock(bo_deps_lock)
LockAfterErrorUnlock(owner) == "none"

IdleAfterSubmit_NoBacking(idl, bos) ==
    [o \in Objects |-> IF o \in Range(bos) THEN FALSE ELSE idl[o]]

\* bo->idle = false; iris_get_backing_bo(bo)->idle = false;  for every exec_bos[i]
IdleAfterSubmit(idl, bos) ==
    [o \in Objects |->
        IF o \in Range(bos) \/ (\E b \in Range(bos) : backing[b] = o) THEN FALSE ELSE idl[o]]

\* bo->index = -1;  for every exec_bos[i]
IndexAfterSubmit(idx, bos) ==
    [o \in Objects |-> IF o \in Range(bos) THEN -1 ELSE idx[o]]

RefcountAfterSubmit_Kept(rc, bos) == rc

\* iris_bo_unreference(bo);  for every exec_bos[i]
RefcountAfterSubmit(rc, bos) ==
    [o \in Objects |-> IF o \in Range(bos) THEN rc[o] - 1 ELSE rc[o]]

\* return ret;
SubmitReturnValue(r) == r

Log(t, entries) == slog' = [slog EXCEPT ![t] = @ \o entries]

\* the batch encoder hands a finished batch to batch_submit: it holds a
\* reference on every listed object and cached each one's list index
SubmitCall(t) ==
    /\ spc[t] = "idle"
    /\ \E b \in BatchesOf(t) :
          /\ batch' = [batch EXCEPT ![t] = b]
          /\ refcount' = [o \in Objects |->
                             IF o \in Range(b.exec_bos) THEN refcount[o] + 1 ELSE refcount[o]]
          /\ index' = [o \in Objects |->
                          IF o \in Range(b.exec_bos)
                          THEN (CHOOSE i \in DOMAIN b.exec_bos : b.exec_bos[i] = o) - 1
                          ELSE index[o]]
    /\ bmapped' = [bmapped EXCEPT ![t] = TRUE]
    /\ spc' = [spc EXCEPT ![t] = SubmitEntry]
    /\ UNCHANGED <<dev_vars, q_vars, bind_vars, gc_vars, debug_batch, bo_deps_lock, backing, idle,
                   syncs, sret, exec, slog, sresult>>

\* iris_bo_unmap(batch->bo);
SubmitUnmap(t) ==
    /\ spc[t] = "unmap"
    /\ bmapped' = [bmapped EXCEPT ![t] = MappedAfterUnmap(bmapped[t])]
    /\ Log(t, << Step("iris_bo_unmap", bo_deps_lock = t, 0) >>)
    /\ spc' = [spc EXCEPT ![t] = IF debug_batch THEN "decode" ELSE "lock"]
    /\ UNCHANGED <<dev_vars, q_vars, bind_vars, gc_vars, sub_shared, batch, syncs, sret, exec, sresult>>

\* if (INTEL_DEBUG(DEBUG_BATCH)) iris_batch_decode_batch(batch);
SubmitDecode(t) ==
    /\ spc[t] = "decode"
    /\ Log(t, << Step("iris_batch_decode_batch", bo_deps_lock = t, 0) >>)
    /\ spc' = [spc EXCEPT ![t] = "lock"]
    /\ UNCHANGED <<dev_vars, q_vars, bind_vars, gc_vars, sub_shared, batch, bmapped, syncs, sret,
                   exec, sresult>>

\* simple_mtx_lock(bo_deps_lock);
SubmitLock(t) ==
    /\ spc[t] = "lock"
    /\ CanLock(bo_deps_lock)
    /\ bo_deps_lock' = t
    /\ Log(t, << Step("simple_mtx_lock", TRUE, 0) >>)
    /\ spc' = [spc EXCEPT ![t] = "sync"]
    /\ UNCHANGED <<dev_vars, q_vars, bind_vars, gc_vars, debug_batch, backing, idle, index, refcount,
                   batch, bmapped, syncs, sret, exec, sresult>>

\* iris_batch_update_syncobjs(batch); sync_len = iris_batch_num_fences(batch);
\* if (sync_len) { calloc, which may fail; the translation loop }
SubmitSyncs(t) ==
    /\ spc[t] = "sync"
    /\ LET fences == batch[t].exec_fences
           held == bo_deps_lock = t
           update == Step("iris_batch_update_syncobjs", held, 0)
       IN IF Len(fences) = 0
          THEN /\ Log(t, << update >>)
               /\ spc' = [spc EXCEPT ![t] = "exec"]
               /\ UNCHANGED <<syncs, sret>>
          ELSE \E allocated \in BOOLEAN :
                 IF allocated
                 THEN /\ syncs' = [syncs EXCEPT ![t] = TranslateFences(fences)]
                      /\ Log(t, << update, Step("calloc", held, 0),
                                   Step("translate", held, 0) >>)
                      /\ spc' = [spc EXCEPT ![t] = "exec"]
                      /\ UNCHANGED sret
                 ELSE /\ sret' = [sret EXCEPT ![t] = -ENOMEM]
                      /\ Log(t, << update, Step("calloc", held, -ENOMEM) >>)
                      /\ spc' = [spc EXCEPT ![t] = AfterCallocFailure]
                      /\ UNCHANGED syncs
    /\ UNCHANGED <<dev_vars, q_vars, bind_vars, gc_vars, sub_shared, batch, bmapped, exec, sresult>>

\* struct drm_xe_exec exec = {...}; the DRM_IOCTL_XE_EXEC unless no_hw
SubmitExec(t) ==
    /\ spc[t] = "exec"
    /\ IF SubmitIssuesExec(no_hw)
       THEN \E r \in IoctlResults :
              /\ sret' = [sret EXCEPT ![t] = r]
              /\ exec' = [exec EXCEPT ![t] = ExecArgs(batch[t], syncs[t])]
              /\ Log(t, << Step("DRM_IOCTL_XE_EXEC", bo_deps_lock = t, r) >>)
       ELSE UNCHANGED <<sret, exec, slog>>
    /\ spc' = [spc EXCEPT ![t] = "unlock"]
    /\ UNCHANGED <<dev_vars, q_vars, bind_vars, gc_vars, sub_shared, batch, bmapped, syncs, sresult>>

\* simple_mtx_unlock(bo_deps_lock);
SubmitUnlock(t) ==
    /\ spc[t] = "unlock"
    /\ bo_deps_lock' = LockAfterUnlock(bo_deps_lock)
    /\ Log(t, << Step("simple_mtx_unlock", bo_deps_lock' = t, 0) >>)
    /\ spc' = [spc EXCEPT ![t] = "bookkeeping"]
    /\ UNCHANGED <<dev_vars, q_vars, bind_vars, gc_vars, debug_batch, backing, idle, index, refcount,
                   batch, bmapped, syncs, sret, exec, sresult>>

\* free(syncs); the loop over exec_bos; return ret;
SubmitBookkeeping(t) ==
    /\ spc[t] = "bookkeeping"
    /\ syncs' = [syncs EXCEPT ![t] = NULL]
    /\ idle' = IdleAfterSubmit(idle, batch[t].exec_bos)
    /\ index' = IndexAfterSubmit(index, batch[t].exec_bos)
    /\ refcount' = RefcountAfterSubmit(refcount, batch[t].exec_bos)
    /\ Log(t, << Step("free", bo_deps_lock = t, 0), Step("bookkeeping", bo_deps_lock = t, 0) >>)
    /\ sresult' = [sresult EXCEPT ![t] = SubmitReturnValue(sret[t])]
    /\ spc' = [spc EXCEPT ![t] = "returned"]
    /\ UNCHANGED <<dev_vars, q_vars, bind_vars, gc_vars, debug_batch, bo_deps_lock, backing,
                   batch, bmapped, sret, exec>>

\* error_no_sync_mem: simple_mtx_unlock(bo_deps_lock); return ret;
SubmitErrorNoSyncMem(t) ==
    /\ spc[t] = "error_no_sync_mem"
    /\ bo_deps_lock' = LockAfterErrorUnlock(bo_deps_lock)
    /\ Log(t, << Step("simple_mtx_unlock", bo_deps_lock' = t, 0) >>)
    /\ sresult' = [sresult EXCEPT ![t] = SubmitReturnValue(sret[t])]
    /\ spc' = [spc EXCEPT ![t] = "returned"]
    /\ UNCHANGED <<dev_vars, q_vars, bind_vars, gc_vars, debug_batch, backing, idle, index, refcount,
                   batch, bmapped, syncs, sret, exec>>

----------------------------------------------------------------------------
(* xe_batch_check_for_reset *)

NoProperty == [engine_id |-> 0, property |-> "none", value |-> 0]

ResetStatus_IgnoreRet(r, value) ==
    IF value # 0 THEN "PIPE_GUILTY_CONTEXT_RESET" ELSE "PIPE_NO_RESET"

\* status = PIPE_NO_RESET; if (ret || engine_get_property.value) status = guilty
ResetStatus(r, value) ==
    IF r # 0 \/ value # 0 THEN "PIPE_GUILTY_CONTEXT_RESET" ELSE "PIPE_NO_RESET"

\* xe_batch_check_for_reset(batch): one DRM_IOCTL_XE_ENGINE_GET_PROPERTY; the
\* kernel writes the value (on failure the field holds whatever it is left with)
XeBatchCheckForReset ==
    /\ rpc = "idle"
    /\ \E e \in 1 .. MaxEngine, r \in IoctlResults, v \in 0 .. MaxValue :
          /\ engine_get_property' =
                [engine_id |-> e, property |-> "XE_ENGINE_GET_PROPERTY_BAN", value |-> v]
          /\ reset_ioctls' = << Ioctl("DRM_IOCTL_XE_ENGINE_GET_PROPERTY", e, r) >>
          /\ reset_status' = ResetStatus(r, v)
    /\ rpc' = "returned"
    /\ UNCHANGED <<dev_vars, bind_vars, gc_vars, sub_vars, mmap_vars>>

\* the caller has the status; the next call starts from scratch
CheckForResetReturn ==
    /\ rpc = "returned"
    /\ rpc' = "idle"
    /\ engine_get_property' = NoProperty
    /\ reset_ioctls' = << >>
    /\ reset_status' = "none"
    /\ UNCHANGED <<dev_vars, bind_vars, gc_vars, sub_vars, mmap_vars>>

----------------------------------------------------------------------------
(* xe_gem_mmap *)

MmapObjects == [gem_handle : GemHandles, size : 1 .. MaxSize]

NoMmapBo == [gem_handle |-> 0, size |-> 0]

\* what mmap() returns: a pointer, or MAP_FAILED
MmapResults == Pointers \cup {MAP_FAILED}

\* a call of xe_gem_mmap: the ioctl or mmap(), what it was given, what it returned
MmapCall(name, handle, length, offset, r) ==
    [call |-> name, handle |-> handle, length |-> length, offset |-> offset, ret |-> r]

\* if (intel_ioctl(... DRM_IOCTL_XE_GEM_MMAP_OFFSET ...)) return NULL;
AfterMmapOffset(r) == IF r # 0 THEN "returned" ELSE "mmap"

GemMmapResult_Raw(map) == map

\* return map != MAP_FAILED ? map : NULL;
GemMmapResult(map) == IF map # MAP_FAILED THEN map ELSE 0

\* the buffer manager calls gem_mmap on an object
CallGemMmap ==
    /\ mpc = "idle"
    /\ \E b \in MmapObjects : mmap_bo' = b
    /\ mpc' = "offset"
    /\ mmap_offset' = 0
    /\ mmap_calls' = << >>
    /\ mmap_ret' = "none"
    /\ UNCHANGED <<dev_vars, bind_vars, gc_vars, sub_vars, reset_vars>>

\* DRM_IOCTL_XE_GEM_MMAP_OFFSET with .handle = bo->gem_handle
GemMmapOffset ==
    /\ mpc = "offset"
    /\ \E r \in IoctlResults, off \in 1 .. MaxOffset :
          /\ mmap_offset' = IF r = 0 THEN off ELSE 0
          /\ mmap_calls' = Append(mmap_calls,
                 MmapCall("DRM_IOCTL_XE_GEM_MMAP_OFFSET", mmap_bo.gem_handle, 0, 0, r))
          /\ mpc' = AfterMmapOffset(r)
          /\ mmap_ret' = IF mpc' = "returned" THEN 0 ELSE mmap_ret
    /\ UNCHANGED <<dev_vars, bind_vars, gc_vars, sub_vars, reset_vars, mmap_bo>>

\* mmap(NULL, bo->size, PROT_READ | PROT_WRITE, MAP_SHARED, fd, args.offset)
GemMmapMap ==
    /\ mpc = "mmap"
    /\ \E map \in MmapResults :
          /\ mmap_calls' = Append(mmap_calls,
                 MmapCall("mmap", 0, mmap_bo.size, mmap_offset, map))
          /\ mmap_ret' = GemMmapResult(map)
    /\ mpc' = "returned"
    /\ UNCHANGED <<dev_vars, bind_vars, gc_vars, sub_vars, reset_vars, mmap_bo, mmap_offset>>

\* the caller has the pointer; the next call starts from scratch
GemMmapReturn ==
    /\ mpc = "returned"
    /\ mpc' = "idle"
    /\ mmap_bo' = NoMmapBo
    /\ mmap_offset' = 0
    /\ mmap_calls' = << >>
    /\ mmap_ret' = "none"
    /\ UNCHANGED <<dev_vars, bind_vars, gc_vars, sub_vars, reset_vars>>

----------------------------------------------------------------------------
(* Specifications *)

InitDev ==
    /\ mem_alignment \in Alignments
    /\ global_vm_id \in 1 .. MaxVm

InitBind ==
    /\ bo = NoBo
    /\ op_req = "none"
    /\ bpc = "idle"
    /\ ret = 0
    /\ create = 0
    /\ args = NoArgs
    /\ ioctls = << >>
    /\ result = "none"
    /\ bound = NoBinding

InitCreate ==
    /\ gpc = "idle"
    /\ gc_in = NoGemCreateInput
    /\ gem_create = NoGemCreate
    /\ gc_ioctls = << >>
    /\ gc_ret = 0

\* every object is idle, referenced by its owner, in no batch; an
\* odd-numbered object is its own backing allocation, an even-numbered one is
\* a view of the object before it
InitSubmit ==
    /\ debug_batch \in BOOLEAN
    /\ bo_deps_lock = "none"
    /\ backing = [o \in Objects |-> IF o % 2 = 0 THEN o - 1 ELSE o]
    /\ idle = [o \in Objects |-> TRUE]
    /\ index = [o \in Objects |-> -1]
    /\ refcount = [o \in Objects |-> 1]
    /\ spc = [t \in Threads |-> "idle"]
    /\ batch = [t \in Threads |-> NoBatch]
    /\ bmapped = [t \in Threads |-> FALSE]
    /\ syncs = [t \in Threads |-> NULL]
    /\ sret = [t \in Threads |-> 0]
    /\ exec = [t \in Threads |-> NoExec]
    /\ slog = [t \in Threads |-> << >>]
    /\ sresult = [t \in Threads |-> "none"]

\* the other specifications leave xe_batch_submit alone
SubmitUnused ==
    /\ InitSubmit
    /\ debug_batch = FALSE

InitReset ==
    /\ rpc = "idle"
    /\ engine_get_property = NoProperty
    /\ reset_ioctls = << >>
    /\ reset_status = "none"

InitMmap ==
    /\ mpc = "idle"
    /\ mmap_bo = NoMmapBo
    /\ mmap_offset = 0
    /\ mmap_calls = << >>
    /\ mmap_ret = "none"

InitQuery == InitReset /\ InitMmap

InitBindSpec ==
    InitDev /\ no_hw = FALSE /\ InitBind /\ InitCreate /\ SubmitUnused /\ InitQuery

NextBind ==
    \/ CallBindOp
    \/ SyncobjCreate
    \/ VmBind
    \/ SyncobjWait
    \/ SyncobjDestroy
    \/ BindReturn

SpecBind == InitBindSpec /\ [][NextBind]_vars

InitCreateSpec ==
    InitDev /\ no_hw = FALSE /\ InitBind /\ InitCreate /\ SubmitUnused /\ InitQuery

NextCreate ==
    \/ XeGemCreate
    \/ GemCreateReturn

SpecCreate == InitCreateSpec /\ [][NextCreate]_vars

InitSubmitSpec ==
    /\ mem_alignment = 1
    /\ global_vm_id = 1
    /\ no_hw \in BOOLEAN
    /\ InitBind
    /\ InitCreate
    /\ InitSubmit
    /\ InitQuery

NextSubmit ==
    \E t \in Threads :
       \/ SubmitCall(t)
       \/ SubmitUnmap(t)
       \/ SubmitDecode(t)
       \/ SubmitLock(t)
       \/ SubmitSyncs(t)
       \/ SubmitExec(t)
       \/ SubmitUnlock(t)
       \/ SubmitBookkeeping(t)
       \/ SubmitErrorNoSyncMem(t)

SpecSubmit == InitSubmitSpec /\ [][NextSubmit]_vars

\* a step of thread t inside xe_batch_submit
SubmitStep(t) ==
    \/ SubmitUnmap(t)
    \/ SubmitDecode(t)
    \/ SubmitLock(t)
    \/ SubmitSyncs(t)
    \/ SubmitExec(t)
    \/ SubmitUnlock(t)
    \/ SubmitBookkeeping(t)
    \/ SubmitErrorNoSyncMem(t)

\* every thread inside xe_batch_submit keeps running: the scheduler runs a
\* runnable thread, every kernel call returns, and a thread blocked in
\* simple_mtx_lock is woken when the mutex is free
SpecSubmitFair == SpecSubmit /\ \A t \in Threads : WF_spc(SubmitStep(t))

\* xe_batch_check_for_reset and xe_gem_mmap, called independently of each other
InitQuerySpec ==
    /\ mem_alignment = 1
    /\ global_vm_id = 1
    /\ no_hw = FALSE
    /\ InitBind
    /\ InitCreate
    /\ SubmitUnused
    /\ InitQuery

NextQuery ==
    \/ XeBatchCheckForReset
    \/ CheckForResetReturn
    \/ CallGemMmap
    \/ GemMmapOffset
    \/ GemMmapMap
    \/ GemMmapReturn

SpecQuery == InitQuerySpec /\ [][NextQuery]_vars

----------------------------------------------------------------------------
(* Properties of xe_gem_vm_bind_op, checked under SpecBind *)

Calls(name) == { i \in DOMAIN ioctls : ioctls[i].ioctl = name }
Failed(name) == \E i \in Calls(name) : ioctls[i].ret # 0
Succeeded(name) == \E i \in Calls(name) : ioctls[i].ret = 0

Created       == Succeeded("DRM_IOCTL_SYNCOBJ_CREATE")
CreateFailed  == Failed("DRM_IOCTL_SYNCOBJ_CREATE")
BindFailed    == Failed("DRM_IOCTL_XE_VM_BIND")
WaitFailed    == Failed("DRM_IOCTL_SYNCOBJ_WAIT")
DestroyFailed == Failed("DRM_IOCTL_SYNCOBJ_DESTROY")
BindIssued    == Calls("DRM_IOCTL_XE_VM_BIND") # {}

\* C1: in a call that created its synchronization object, a destroy request
\* is never issued twice, is only ever issued for the created object, and
\* exactly one has been issued when the call returns, whichever of the
\* bind submission and the wait failed.
C1_DestroyExactlyOnce ==
    LET destroys == Calls("DRM_IOCTL_SYNCOBJ_DESTROY") IN
    /\ Cardinality(destroys) <= 1
    /\ \A i \in destroys : Created /\ ioctls[i].handle = create
    /\ (bpc = "returned" /\ Created) => Cardinality(destroys) = 1

C1_Witness ==
    /\ bpc = "returned"
    /\ Created
    /\ WaitFailed
    /\ Cardinality(Calls("DRM_IOCTL_SYNCOBJ_DESTROY")) = 1

\* C2: Bind returns success only if the bind submission succeeded and a wait
\* on the synchronization object attached to it as signal-on-completion was
\* issued after it and succeeded; a failed submission or a failed wait makes
\* Bind report failure; no wait is issued after a failed submission.
C2_BindSuccessRequiresWait ==
    /\ (bpc = "returned" /\ op_req = "XE_VM_BIND_OP_MAP" /\ result = TRUE) =>
          \E i, j \in DOMAIN ioctls :
             /\ i < j
             /\ ioctls[i] = Ioctl("DRM_IOCTL_XE_VM_BIND", create, 0)
             /\ args.sync.handle = create
             /\ "DRM_XE_SYNC_SIGNAL" \in args.sync.flags
             /\ ioctls[j] = Ioctl("DRM_IOCTL_SYNCOBJ_WAIT", create, 0)
    /\ (bpc = "returned" /\ op_req = "XE_VM_BIND_OP_MAP" /\ (BindFailed \/ WaitFailed)) =>
          result = FALSE
    /\ BindFailed => Calls("DRM_IOCTL_SYNCOBJ_WAIT") = {}

C2_Witness ==
    /\ bpc = "returned"
    /\ op_req = "XE_VM_BIND_OP_MAP"
    /\ result = TRUE
    /\ Succeeded("DRM_IOCTL_SYNCOBJ_WAIT")

\* C7: when the creation of the synchronization object fails, no bind
\* submission, no wait and no destroy request is issued, and the call
\* reports failure.
C7_CreateFailureStops ==
    /\ CreateFailed =>
          /\ Calls("DRM_IOCTL_XE_VM_BIND") = {}
          /\ Calls("DRM_IOCTL_SYNCOBJ_WAIT") = {}
          /\ Calls("DRM_IOCTL_SYNCOBJ_DESTROY") = {}
    /\ (bpc = "returned" /\ CreateFailed) => result = FALSE

C7_Witness ==
    /\ bpc = "returned"
    /\ op_req = "XE_VM_BIND_OP_UNMAP"
    /\ CreateFailed
    /\ result = FALSE

\* C8, as claimed: Bind and Unbind report failure whenever the destruction of
\* their synchronization object fails.
C8_DestroyFailureReported ==
    (bpc = "returned" /\ DestroyFailed) => result = FALSE

\* C8, amended: Bind and Unbind report failure exactly when the creation, the
\* bind submission or the wait failed; the result of the destruction does
\* not enter the result.
C8_ResultIgnoresDestroy ==
    bpc = "returned" => (result = FALSE <=> (CreateFailed \/ BindFailed \/ WaitFailed))

C8_Witness ==
    /\ bpc = "returned"
    /\ DestroyFailed
    /\ Succeeded("DRM_IOCTL_XE_VM_BIND")
    /\ Succeeded("DRM_IOCTL_SYNCOBJ_WAIT")
    /\ result = TRUE

\* C9: the request Bind issues for a user-pointer object has operation
\* map-userptr, handle 0 and the pointer's address as offset; for a
\* kernel-owned object it has operation map, the object's non-zero kernel
\* handle and offset 0.
C9_BindRequestFields ==
    (op_req = "XE_VM_BIND_OP_MAP" /\ BindIssued) =>
       IF bo.userptr
       THEN /\ args.op = "XE_VM_BIND_OP_MAP_USERPTR"
            /\ args.obj = 0
            /\ args.obj_offset = bo.map
       ELSE /\ args.op = "XE_VM_BIND_OP_MAP"
            /\ args.obj = bo.gem_handle
            /\ args.obj # 0
            /\ args.obj_offset = 0

C9_Witness ==
    /\ op_req = "XE_VM_BIND_OP_MAP"
    /\ BindIssued
    /\ bo.userptr
    /\ bo.gem_handle # 0
    /\ args.obj = 0
    /\ args.obj_offset = bo.map

\* C10: the range of a bind or unbind request is the raw size for an imported
\* object; for any other object it is the multiple of the device alignment
\* that is at least the size and less than the size plus the alignment.
C10_BindRange ==
    BindIssued =>
       IF bo.imported
       THEN args.range = bo.size
       ELSE /\ args.range % mem_alignment = 0
            /\ args.range >= bo.size
            /\ args.range < bo.size + mem_alignment

C10_Witness ==
    /\ BindIssued
    /\ ~bo.imported
    /\ bo.size % mem_alignment # 0
    /\ args.range > bo.size

----------------------------------------------------------------------------
(* Properties of xe_gem_create, checked under SpecCreate *)

\* C6: a Create request with the protected-content flag returns the "no
\* object" sentinel 0 and issues no kernel call.
C6_ProtectedReturnsSentinel ==
    (gpc = "returned" /\ "BO_ALLOC_PROTECTED" \in gc_in.alloc_flags) =>
       /\ gc_ret = 0
       /\ gc_ioctls = << >>

Unprotected == gpc = "returned" /\ "BO_ALLOC_PROTECTED" \notin gc_in.alloc_flags

\* C12: a creation without the protected flag issues exactly one
\* DRM_IOCTL_XE_GEM_CREATE; when the kernel fails it the call returns the
\* sentinel 0, and when the kernel succeeds the call returns the handle the
\* kernel assigned; there is no second request.
C12_OneCreateRequest ==
    Unprotected =>
       /\ Len(gc_ioctls) = 1
       /\ gc_ioctls[1].ioctl = "DRM_IOCTL_XE_GEM_CREATE"
       /\ gc_ioctls[1].ret # 0 => gc_ret = 0
       /\ gc_ioctls[1].ret = 0 =>
             /\ gc_ret = gem_create.handle
             /\ gc_ret = gc_ioctls[1].handle
             /\ gc_ret \in GemHandles

C12_Witness ==
    /\ Unprotected
    /\ Len(gc_ioctls) = 1
    /\ gc_ioctls[1].ret # 0
    /\ gc_ret = 0

\* C20: the creation request carries vm id 0 when the shared flag is set and
\* the device's private vm id otherwise; its size is the requested size
\* rounded up to the next multiple of the device alignment; its flags are the
\* union of one bit per region, numbered by the region's instance, plus the
\* scanout flag exactly when scanout was requested.
C20_CreateRequestFields ==
    Unprotected =>
       /\ global_vm_id # 0
       /\ gem_create.vm_id = IF "BO_ALLOC_SHARED" \in gc_in.alloc_flags THEN 0 ELSE global_vm_id
       /\ gem_create.size % mem_alignment = 0
       /\ gem_create.size >= gc_in.size
       /\ gem_create.size < gc_in.size + mem_alignment
       /\ \A i \in DOMAIN gc_in.regions : gc_in.regions[i] \in gem_create.flags
       /\ \A bit \in gem_create.flags \ {XE_GEM_CREATE_FLAG_SCANOUT_BIT} :
             \E i \in DOMAIN gc_in.regions : gc_in.regions[i] = bit
       /\ (XE_GEM_CREATE_FLAG_SCANOUT_BIT \in gem_create.flags)
             <=> ("BO_ALLOC_SCANOUT" \in gc_in.alloc_flags)

C20_Witness ==
    /\ Unprotected
    /\ "BO_ALLOC_SHARED" \notin gc_in.alloc_flags
    /\ "BO_ALLOC_SCANOUT" \in gc_in.alloc_flags
    /\ Len(gc_in.regions) = 2
    /\ gc_in.regions[1] # gc_in.regions[2]
    /\ gem_create.size > gc_in.size
    /\ gem_create.vm_id = global_vm_id

----------------------------------------------------------------------------
(* Properties of xe_batch_submit, checked under SpecSubmit *)

Steps(t, name) == { i \in DOMAIN slog[t] : slog[t][i].step = name }
ExecCalls(t) == Steps(t, "DRM_IOCTL_XE_EXEC")
AllocFailed(t) == \E i \in Steps(t, "calloc") : slog[t][i].ret # 0

\* C3, as claimed: Submit returns the code the kernel submission call
\* reported; in no-hardware mode it returns 0 and the call is never issued.
C3_ReturnsKernelCode ==
    \A t \in Threads :
       spc[t] = "returned" =>
          /\ \A i \in ExecCalls(t) : sresult[t] = slog[t][i].ret
          /\ no_hw => (sresult[t] = 0 /\ ExecCalls(t) = {})

\* C3, amended: a Submit that issued the kernel submission call returns the
\* code it reported; in no-hardware mode the call is never issued and Submit
\* returns 0 unless the allocation of the translated dependency array
\* failed; after that failure Submit returns -ENOMEM, in either mode, and
\* the call is not issued.
C3_ReturnsKernelCodeOrENOMEM ==
    \A t \in Threads :
       /\ Cardinality(ExecCalls(t)) <= 1
       /\ no_hw => ExecCalls(t) = {}
       /\ AllocFailed(t) => ExecCalls(t) = {}
       /\ spc[t] = "returned" =>
             /\ \A i \in ExecCalls(t) : sresult[t] = slog[t][i].ret
             /\ (no_hw /\ ~AllocFailed(t)) => sresult[t] = 0
             /\ AllocFailed(t) => sresult[t] = -ENOMEM
             /\ (~no_hw /\ ~AllocFailed(t)) => ExecCalls(t) # {}

C3_Witness ==
    /\ no_hw
    /\ spc["t1"] = "returned"
    /\ batch["t1"].exec_fences # << >>
    /\ ~AllocFailed("t1")
    /\ sresult["t1"] = 0
    /\ ExecCalls("t1") = {}

\* C4: the step by which a Submit returns 0 leaves every object of the
\* batch's list not idle and with its cached index cleared, and leaves the
\* backing allocation of each not idle.
C4_SuccessClearsIdle ==
    [][\A t \in Threads :
          (spc[t] # "returned" /\ spc'[t] = "returned" /\ sresult'[t] = 0) =>
             \A o \in Range(batch[t].exec_bos) :
                /\ idle'[o] = FALSE
                /\ index'[o] = -1
                /\ idle'[backing[o]] = FALSE]_vars

C4_Witness ==
    /\ spc["t1"] = "returned"
    /\ sresult["t1"] = 0
    /\ \E o \in Range(batch["t1"].exec_bos) :
          /\ backing[o] # o
          /\ backing[o] \notin Range(batch["t1"].exec_bos)
          /\ idle[o] = FALSE
          /\ index[o] = -1
          /\ idle[backing[o]] = FALSE

\* C5: a thread holds the dependency lock exactly between its one
\* acquisition and its one release, and every Submit that has returned, on
\* the kernel path, the no-hardware path or the allocation-failure path, has
\* acquired the lock once, released it once and no longer holds it.
C5_LockReleasedOnEveryPath ==
    \A t \in Threads :
       LET locks   == Cardinality(Steps(t, "simple_mtx_lock"))
           unlocks == Cardinality(Steps(t, "simple_mtx_unlock"))
       IN /\ locks <= 1
          /\ unlocks <= locks
          /\ (bo_deps_lock = t) <=> (locks = 1 /\ unlocks = 0)
          /\ spc[t] = "returned" => (locks = 1 /\ unlocks = 1 /\ bo_deps_lock # t)

C5_Witness ==
    /\ spc["t1"] = "returned"
    /\ AllocFailed("t1")
    /\ sresult["t1"] = -ENOMEM
    /\ bo_deps_lock # "t1"
    /\ Cardinality(Steps("t1", "simple_mtx_unlock")) = 1

----------------------------------------------------------------------------
(* Claims about xe_batch_check_for_reset and xe_gem_mmap *)

PropertyFailed == reset_ioctls[1].ret # 0

\* C11: the context-health check issues one ban-property query for the
\* batch's engine; it reports the guilty/reset status exactly when the query
\* failed or returned a non-zero value, and reports no reset exactly when the
\* query succeeded and returned zero.
C11_GuiltyIffFailedOrBanned ==
    rpc = "returned" =>
       /\ Len(reset_ioctls) = 1
       /\ reset_ioctls[1].ioctl = "DRM_IOCTL_XE_ENGINE_GET_PROPERTY"
       /\ reset_ioctls[1].handle = engine_get_property.engine_id
       /\ engine_get_property.property = "XE_ENGINE_GET_PROPERTY_BAN"
       /\ reset_status \in {"PIPE_GUILTY_CONTEXT_RESET", "PIPE_NO_RESET"}
       /\ (reset_status = "PIPE_GUILTY_CONTEXT_RESET")
             <=> (PropertyFailed \/ engine_get_property.value # 0)
       /\ (reset_status = "PIPE_NO_RESET")
             <=> (~PropertyFailed /\ engine_get_property.value = 0)

C11_Witness ==
    /\ rpc = "returned"
    /\ PropertyFailed
    /\ engine_get_property.value = 0
    /\ reset_status = "PIPE_GUILTY_CONTEXT_RESET"

MmapCalls(name) == { i \in DOMAIN mmap_calls : mmap_calls[i].call = name }
OffsetCalls == MmapCalls("DRM_IOCTL_XE_GEM_MMAP_OFFSET")
MapCalls == MmapCalls("mmap")

\* C13: xe_gem_mmap queries the offset at most once and maps at most once;
\* it maps only after the offset query has succeeded, with the object's size
\* and the offset the kernel gave; it returns null when the offset query
\* fails and when the mapping fails, and a non-null pointer only when both
\* steps succeeded, that pointer being the one mmap returned.
C13_NullUnlessBothSucceed ==
    /\ Cardinality(OffsetCalls) <= 1
    /\ Cardinality(MapCalls) <= 1
    /\ \A i \in MapCalls :
          /\ i = 2
          /\ 1 \in OffsetCalls
          /\ mmap_calls[1].ret = 0
          /\ mmap_calls[1].handle = mmap_bo.gem_handle
          /\ mmap_calls[i].length = mmap_bo.size
          /\ mmap_calls[i].offset = mmap_offset
    /\ mpc = "returned" =>
          /\ Cardinality(OffsetCalls) = 1
          /\ mmap_calls[1].ret # 0 => (mmap_ret = 0 /\ MapCalls = {})
          /\ mmap_calls[1].ret = 0 => MapCalls = {2}
          /\ \A i \in MapCalls :
                /\ mmap_calls[i].ret = MAP_FAILED => mmap_ret = 0
                /\ mmap_calls[i].ret # MAP_FAILED => mmap_ret = mmap_calls[i].ret
          /\ mmap_ret # 0 =>
                /\ mmap_calls[1].ret = 0
                /\ MapCalls = {2}
                /\ mmap_calls[2].ret # MAP_FAILED

C13_Witness ==
    /\ mpc = "returned"
    /\ MapCalls = {2}
    /\ mmap_calls[2].ret = MAP_FAILED
    /\ mmap_ret = 0

Before(t, i, name) == \E j \in Steps(t, name) : j < i
HeldSteps(t) ==
    Steps(t, "iris_batch_update_syncobjs") \cup Steps(t, "calloc")
       \cup Steps(t, "translate") \cup ExecCalls(t)
AfterUnlockSteps(t) == Steps(t, "free") \cup Steps(t, "bookkeeping")

\* C15: within one Submit the diagnostic decode runs without the dependency
\* lock and before it is acquired; the fence translation and the kernel
\* submission run while the thread holds the lock; the lock has been released
\* when the dependency array is freed and when the per-object bookkeeping
\* (idle flags, references) runs.
C15_LockSpan ==
    \A t \in Threads :
       /\ \A i \in Steps(t, "iris_batch_decode_batch") :
             /\ ~slog[t][i].held
             /\ ~Before(t, i, "simple_mtx_lock")
       /\ \A i \in HeldSteps(t) :
             /\ slog[t][i].held
             /\ Before(t, i, "simple_mtx_lock")
             /\ ~Before(t, i, "simple_mtx_unlock")
       /\ \A i \in AfterUnlockSteps(t) :
             /\ ~slog[t][i].held
             /\ Before(t, i, "simple_mtx_unlock")
       /\ spc[t] = "bookkeeping" => bo_deps_lock # t

C15_Witness ==
    /\ spc["t1"] = "returned"
    /\ Steps("t1", "iris_batch_decode_batch") # {}
    /\ Steps("t1", "translate") # {}
    /\ ExecCalls("t1") # {}
    /\ Steps("t1", "bookkeeping") # {}

\* C16: when the allocation of the dependency array fails, Submit returns the
\* out-of-memory code without a kernel submission and still performs the
\* per-object bookkeeping: every object of the batch is marked not idle and
\* the submission's reference to it is dropped.
C16_AllocFailureStillBookkeeps ==
    \A t \in Threads :
       (spc[t] = "returned" /\ AllocFailed(t)) =>
          /\ sresult[t] = -ENOMEM
          /\ ExecCalls(t) = {}
          /\ Steps(t, "bookkeeping") # {}
          /\ \A o \in Range(batch[t].exec_bos) : ~idle[o]

\* C17: the dependency list handed to the kernel submission has the length
\* and order of the batch's fence list; descriptor i carries the handle of
\* fence i, always the sync-object flag, and the signal flag exactly when
\* fence i has its signal bit; with no fence nothing is allocated and the
\* submission carries a null array of zero dependencies.
C17_SyncsMirrorFences ==
    \A t \in Threads :
       ExecCalls(t) # {} =>
          LET fences == batch[t].exec_fences IN
          /\ exec[t].num_syncs = Len(fences)
          /\ IF Len(fences) = 0
             THEN /\ exec[t].syncs = NULL
                  /\ Steps(t, "calloc") = {}
             ELSE /\ Len(exec[t].syncs) = Len(fences)
                  /\ Cardinality(Steps(t, "calloc")) = 1
                  /\ \A i \in 1 .. Len(fences) :
                        /\ exec[t].syncs[i].handle = fences[i].handle
                        /\ "DRM_XE_SYNC_SYNCOBJ" \in exec[t].syncs[i].flags
                        /\ ("DRM_XE_SYNC_SIGNAL" \in exec[t].syncs[i].flags)
                              <=> ("IRIS_BATCH_FENCE_SIGNAL" \in fences[i].flags)
                        /\ exec[t].syncs[i].flags \subseteq
                              {"DRM_XE_SYNC_SYNCOBJ", "DRM_XE_SYNC_SIGNAL"}

C17_Witness ==
    /\ ExecCalls("t1") # {}
    /\ Len(batch["t1"].exec_fences) = 2
    /\ "IRIS_BATCH_FENCE_SIGNAL" \in batch["t1"].exec_fences[1].flags
    /\ "IRIS_BATCH_FENCE_SIGNAL" \notin batch["t1"].exec_fences[2].flags
    /\ exec["t1"].num_syncs = 2
    /\ exec["t1"].syncs[2].flags = {"DRM_XE_SYNC_SYNCOBJ"}

InCritical(t) == spc[t] \in {"sync", "exec", "unlock", "error_no_sync_mem"}

MutualExclusion ==
    \A t, u \in Threads :
       /\ InCritical(t) <=> bo_deps_lock = t
       /\ (InCritical(t) /\ InCritical(u)) => t = u

\* C14: with threads submitting concurrently, at most one thread at a time is
\* between the acquisition and the release of the dependency lock, and, every
\* kernel call returning, every Submit that was called eventually returns.
C14_ExclusiveAndReturns ==
    /\ []MutualExclusion
    /\ \A t \in Threads : (spc[t] # "idle") ~> (spc[t] = "returned")

C14_Witness ==
    /\ spc["t1"] = "exec"
    /\ bo_deps_lock = "t1"
    /\ spc["t2"] = "lock"

----------------------------------------------------------------------------
(* Bind followed by Unbind, checked under SpecBind *)

UnbindIssued == op_req = "XE_VM_BIND_OP_UNMAP" /\ BindIssued

\* C19: Unbind follows the protocol of Bind: its one DRM_IOCTL_XE_VM_BIND
\* comes after a successful syncobj creation and signals that syncobj, on the
\* device's vm; it carries the unmap operation and handle 0 whatever the
\* object; and for an object that an earlier Bind mapped and that has not
\* changed, its address and range are those of that Bind's request.
C19_UnbindMirrorsBind ==
    UnbindIssued =>
       /\ ioctls[1].ioctl = "DRM_IOCTL_SYNCOBJ_CREATE"
       /\ ioctls[1].ret = 0
       /\ ioctls[2].ioctl = "DRM_IOCTL_XE_VM_BIND"
       /\ args.vm_id = global_vm_id
       /\ args.num_binds = 1
       /\ args.num_syncs = 1
       /\ args.sync = BindSync(create)
       /\ args.op = "XE_VM_BIND_OP_UNMAP"
       /\ args.obj = 0
       /\ (bound.live /\ bound.bo = bo) =>
             /\ args.addr = bound.addr
             /\ args.range = bound.range

C19_Witness ==
    /\ UnbindIssued
    /\ bound.live
    /\ bound.bo = bo
    /\ ~bo.userptr
    /\ ~bo.imported
    /\ bo.gem_handle # 0
    /\ args.obj = 0
    /\ args.range = bound.range
    /\ args.range > bo.size
    /\ args.addr = bound.addr
    /\ bo.address # args.addr

----------------------------------------------------------------------------
(* Bookkeeping of xe_batch_submit whatever the kernel reports *)

\* thread t got past the allocation of the dependency array
ReachedExec(t) == spc[t] \in {"exec", "unlock", "bookkeeping"} \/ (spc[t] = "returned" /\ ~AllocFailed(t))

BookkeptOnce ==
    \A t \in Threads :
       /\ Cardinality(Steps(t, "bookkeeping")) <= 1
       /\ (spc[t] = "returned" /\ ~AllocFailed(t)) =>
             Cardinality(Steps(t, "bookkeeping")) = 1

\* C21: a Submit that reached the kernel submission step performs the
\* per-object bookkeeping exactly once before it returns, whatever the kernel
\* reported (a failure included): the step that returns marks every
\* referenced object and its backing allocation not idle and lowers the
\* reference count of every referenced object by one, and of no other object.
C21_BookkeepingWhateverResult ==
    /\ []BookkeptOnce
    /\ [][\A t \in Threads :
             (ReachedExec(t) /\ spc[t] # "returned" /\ spc'[t] = "returned") =>
                /\ spc[t] = "bookkeeping"
                /\ \A o \in Objects :
                      IF o \in Range(batch[t].exec_bos)
                      THEN /\ idle'[o] = FALSE
                           /\ idle'[backing[o]] = FALSE
                           /\ refcount'[o] = refcount[o] - 1
                      ELSE refcount'[o] = refcount[o]]_vars

C21_Witness ==
    /\ spc["t1"] = "returned"
    /\ ExecCalls("t1") # {}
    /\ sresult["t1"] < 0
    /\ Steps("t1", "bookkeeping") # {}
    /\ Len(batch["t1"].exec_bos) = 2
    /\ \A o \in Range(batch["t1"].exec_bos) : ~idle[o] /\ ~idle[backing[o]]
    /\ \E o \in Range(batch["t1"].exec_bos) : refcount[o] = 1

----------------------------------------------------------------------------
(* Unbind of a userptr object and the vm of every bind request *)

\* C22: the Unbind of a userptr object issues the plain unmap operation (only
\* a map is rewritten to map-userptr), with handle 0 and with the object
\* offset holding the CPU pointer; and every Bind or Unbind request, whatever
\* the object, is addressed to the device's private vm id, never to vm 0.
C22_UserptrUnbindAndVm ==
    BindIssued =>
       /\ args.vm_id = global_vm_id
       /\ args.vm_id # 0
       /\ (op_req = "XE_VM_BIND_OP_UNMAP" /\ bo.userptr) =>
             /\ args.op = "XE_VM_BIND_OP_UNMAP"
             /\ args.obj = 0
             /\ args.obj_offset = bo.map
             /\ args.obj_offset # 0

C22_Witness ==
    /\ UnbindIssued
    /\ bo.userptr
    /\ bound.live
    /\ bound.bo = bo
    /\ args.op = "XE_VM_BIND_OP_UNMAP"
    /\ args.obj = 0
    /\ args.obj_offset = bo.map
    /\ args.vm_id = global_vm_id

====
